---- MODULE Spec2Model ----
(***************************************************************************)
(* Model of the RPi mission controller (TaskOne): the command router       *)
(* (command_follower), the motor handshake handler (recv_stm), the action  *)
(* processor (rpi_action with recognize_image, request_algo and            *)
(* request_stitch), the operator-link parser (recv_android), the outbound  *)
(* sender (android_controller) with AndroidMessage.to_string, and the      *)
(* reconnect supervisor (reconnect_android).                               *)
(*                                                                         *)
(* Text is modelled as a sequence of one-character strings, so that        *)
(* strip(), upper(), startswith(), split() and int() are computed.         *)
(***************************************************************************)
EXTENDS Integers, Sequences, FiniteSets, TLC

\* ------------------------------------------------------------------ bounds
\* operator-link packets the environment delivers in one behaviour
MaxPackets == 1
\* messages OutboundQueue holds before a producer waits for the outbound sender
MaxOutbound == 1
\* operator-link packets delivered in one behaviour of the parser specification
MaxParserPackets == 3
\* operator-link packets delivered in one behaviour of the operator specification
MaxOperatorPackets == 2
\* operator-link packets delivered in one behaviour of the link specification
MaxLinkPackets == 2
\* operator-link lines delivered in one behaviour of the direction specification
MaxDirectionPackets == 2
\* the largest coordinate of a serialized waypoint
MaxCoord == 1

\* ------------------------------------------------------------------- text
LowerChars == <<"a","b","c","d","e","f","g","h","i","j","k","l","m",
                "n","o","p","q","r","s","t","u","v","w","x","y","z">>
UpperChars == <<"A","B","C","D","E","F","G","H","I","J","K","L","M",
                "N","O","P","Q","R","S","T","U","V","W","X","Y","Z">>
DigitChars == <<"0","1","2","3","4","5","6","7","8","9">>
Whitespace == {" ", "\n", "\t", "\r"}

\* str.upper() on one character
UpCh(c) ==
    IF \E i \in 1..26 : LowerChars[i] = c
    THEN UpperChars[CHOOSE i \in 1..26 : LowerChars[i] = c]
    ELSE c

\* str.lower() on one character
LowCh(c) ==
    IF \E i \in 1..26 : UpperChars[i] = c
    THEN LowerChars[CHOOSE i \in 1..26 : UpperChars[i] = c]
    ELSE c

\* str.upper()
Upper(s) == [i \in 1..Len(s) |-> UpCh(s[i])]

\* str.lower()
Lower(s) == [i \in 1..Len(s) |-> LowCh(s[i])]

\* str.startswith(p)
StartsWith(s, p) == Len(s) >= Len(p) /\ SubSeq(s, 1, Len(p)) = p

\* str.endswith(p)
EndsWith(s, p) == Len(s) >= Len(p) /\ SubSeq(s, Len(s) - Len(p) + 1, Len(s)) = p

\* str.strip(): leading and trailing whitespace removed
Strip(s) ==
    LET keep == {i \in 1..Len(s) : s[i] \notin Whitespace}
    IN  IF keep = {} THEN <<>>
        ELSE LET lo == CHOOSE i \in keep : \A j \in keep : i <= j
                 hi == CHOOSE i \in keep : \A j \in keep : i >= j
             IN  SubSeq(s, lo, hi)

\* str.split(sep) for a one-character separator
RECURSIVE Split(_, _)
Split(s, sep) ==
    IF \A i \in 1..Len(s) : s[i] # sep THEN <<s>>
    ELSE LET k == CHOOSE i \in 1..Len(s) : s[i] = sep /\ \A j \in 1..(i-1) : s[j] # sep
         IN  <<SubSeq(s, 1, k - 1)>> \o Split(SubSeq(s, k + 1, Len(s)), sep)

DigitVal(c) == (CHOOSE i \in 1..10 : DigitChars[i] = c) - 1
IsDigit(c) == \E i \in 1..10 : DigitChars[i] = c

\* whether int(s) succeeds: optional sign, then at least one digit
IsIntText(s) ==
    LET t == Strip(s)
        body == IF t # <<>> /\ t[1] \in {"-", "+"} THEN Tail(t) ELSE t
    IN  body # <<>> /\ \A i \in 1..Len(body) : IsDigit(body[i])

RECURSIVE DigitsVal(_)
DigitsVal(ds) ==
    IF ds = <<>> THEN 0
    ELSE 10 * DigitsVal(SubSeq(ds, 1, Len(ds) - 1)) + DigitVal(ds[Len(ds)])

\* int(s), for a text IsIntText accepts
IntOf(s) ==
    LET t == Strip(s)
    IN  IF t[1] = "-" THEN 0 - DigitsVal(Tail(t))
        ELSE IF t[1] = "+" THEN DigitsVal(Tail(t))
        ELSE DigitsVal(t)

\* ------------------------------------------------- values and constants
\* a Python str value / a Python int value held in a queue
PyStr(chars) == [t |-> "str", s |-> chars]
PyInt(digits) == [t |-> "int", s |-> digits]

\* Category values (constant/consts.py)
CatObstacle == "obstacles"
CatSnap == "snap"
CatStitch == "stitch"
CatInfo == "info"
CatError == "error"
CatStatus == "status"
CatMode == "mode"
CatLocation == "location"
CatImageRec == "image-rec"
CatFin == <<"F","I","N">>

\* DIR_MAP_STR_TO_CODE.get(text.upper(), 0)
DIR_MAP_STR_TO_CODE(text) ==
    LET u == Upper(text)
    IN  IF u \in {<<"N">>, <<"N","O","R","T","H">>} THEN 0
        ELSE IF u \in {<<"E">>, <<"E","A","S","T">>} THEN 2
        ELSE IF u \in {<<"S">>, <<"S","O","U","T","H">>} THEN 4
        ELSE IF u \in {<<"W">>, <<"W","E","S","T">>} THEN 6
        ELSE 0

\* command texts
T_SNAP == <<"S","N","A","P">>
T_FIN == <<"F","I","N">>
T_ACK == <<"A","C","K">>
NL == <<"\n">>

\* AndroidMessage(cat, value) / PiAction(cat, value)
AndroidMessage(cat, value) == [cat |-> cat, value |-> value]
PiAction(cat, value) == [cat |-> cat, value |-> value]

\* the value of a PiAction: a text (SNAP, STITCH) or an obstacle payload (OBSTACLE)
NoPayload == [robot_x |-> 0, robot_y |-> 0, robot_dir |-> 0, obstacles |-> <<>>]
ValStr(chars) == [s |-> chars, m |-> NoPayload]
ValMap(m) == [s |-> <<>>, m |-> m]

\* the value of an AndroidMessage: a text, or a waypoint (location)
NoWaypoint == [x |-> 0, y |-> 0, d |-> PyInt(<<"0">>)]
MsgText(text) == [t |-> "str", s |-> text, loc |-> NoWaypoint]
MsgLoc(loc) == [t |-> "dict", s |-> "", loc |-> loc]
NoMessage == AndroidMessage("none", MsgText(""))

NoCommand == [t |-> "none", s |-> <<>>]
NoAction == [cat |-> "none", value |-> ValStr(<<>>)]

\* ------------------------------------------------------------------ state
VARIABLES
    command_queue,      \* CommandQueue
    path_queue,         \* PathQueue
    android_queue,      \* OutboundQueue
    rpi_action_queue,   \* the action processor's queue
    movement_lock,      \* TRUE when MovementLock is held
    unpause,            \* the Unpause gate
    finish_all,         \* the FinishAll gate
    android_dropped,    \* the link-dropped flag
    awaiting_ack,       \* AwaitingAck
    current_location,   \* Pose
    obstacles_accum,    \* recv_android's obstacle accumulator
    recv_pc,            \* operator receiver: "run", "dead" or "killed"
    cf_pc,              \* command router: its position in the loop body
    cf_command,         \* command router: the command it has dequeued
    cf_last,            \* command router: what it logged last
    stopped,            \* stop() has been called
    stm_pc,             \* motor handshake handler: its position
    stm_in,             \* motor link: lines on the way to the handler
    stm_sent,           \* motor link: the byte string sent last
    in_flight,          \* sent movement commands whose motor FIN is not yet processed
    stm_log,            \* motor handshake handler: what it logged last
    ra_pc,              \* action processor: its position
    ra_action,          \* action processor: the action it has dequeued
    ra_resp,            \* action processor: the plan response in hand
    taken,              \* commands of ra_resp the router dequeued while request_algo refills
    popped,             \* waypoints of ra_resp a motor FIN popped while request_algo refills
    pkt_left,           \* operator packets the environment may still deliver
    recv_log,           \* the operator packets received, from the last flush token on
    link_up,            \* TRUE while the operator link's socket is connected
    link_out,           \* the last line written to the operator link
    ac_pc,              \* outbound sender: "get", "send" or "killed"
    ac_msg,             \* outbound sender: the message it has dequeued
    ac_failed,          \* TRUE once a send of the running outbound sender has failed
    sup_pc              \* reconnect supervisor: its position

queues == <<command_queue, path_queue, android_queue, rpi_action_queue>>
sync == <<movement_lock, unpause, finish_all, android_dropped, awaiting_ack>>
cfv == <<cf_pc, cf_command, cf_last, stopped>>
stmv == <<stm_pc, stm_in, stm_sent, in_flight, stm_log>>
rav == <<ra_pc, ra_action, ra_resp, taken, popped>>
linkv == <<link_up, link_out, ac_pc, ac_msg, ac_failed, sup_pc>>
opv == <<obstacles_accum, recv_pc, pkt_left, recv_log, linkv>>
vars == <<queues, sync, cfv, stmv, rav, opv, current_location>>

\* ------------------------------------------------- the motor controller
\* What the motor controller answers to one command it received: ACK when it
\* accepts the command and FIN when the movement is done, in the spellings
\* recv_stm accepts, possibly with an empty line and a line that is neither.
MotorReplies ==
    { << <<"A","C","K">>, <<"F","I","N">> >>,
      << <<>>, <<"a","c","k","\n">>, <<"O","K">>, <<"f","i","n","\r","\n">> >> }

\* self.android_queue.put(message); the model holds at most MaxOutbound messages,
\* a producer waiting for the outbound sender beyond that
AndroidPut(message) ==
    /\ Len(android_queue) < MaxOutbound
    /\ android_queue' = Append(android_queue, message)

\* ------------------------------------- MovementLock (base_rpi.py, not in src)
\* lock.acquire() returns only when the lock is free, and takes it
LockAcquire == ~movement_lock /\ movement_lock' = TRUE
\* lock.release() leaves the lock free; on a free lock it raises an exception,
\* ValueError from a multiprocessing lock and RuntimeError from a threading lock
LockRelease == movement_lock' = FALSE
ReleaseRaises == ~movement_lock
LockErrors == {"ValueError", "RuntimeError"}

\* ------------------------------------------------------ command router
\* eval() of a "b'...'" text: a bytes literal without escapes or inner quotes
EvalOk(s) ==
    /\ Len(s) >= 3
    /\ s[Len(s)] = s[2]
    /\ \A i \in 3..(Len(s) - 1) : s[i] \notin {"'", "\"", "\\"}

\* command_follower: the dequeued command as text (str) and as bytes
Normalize(command) ==
    IF command.t = "bytes"
    THEN [ok |-> TRUE,
          bytes |-> IF EndsWith(command.s, NL) THEN command.s ELSE command.s \o NL,
          str |-> Strip(command.s)]
    ELSE IF command.t = "str"
    THEN IF StartsWith(command.s, <<"b","'">>) \/ StartsWith(command.s, <<"b","\"">>)
         THEN IF EvalOk(command.s)
              THEN LET b == SubSeq(command.s, 3, Len(command.s) - 1)
                       bb == IF EndsWith(b, NL) THEN b ELSE b \o NL
                   IN  [ok |-> TRUE, bytes |-> bb, str |-> Strip(bb)]
              ELSE [ok |-> FALSE, bytes |-> <<>>, str |-> <<>>]
         ELSE LET st == Strip(command.s)
              IN  [ok |-> TRUE, bytes |-> st \o NL, str |-> st]
    ELSE [ok |-> FALSE, bytes |-> <<>>, str |-> <<>>]

command_str == Normalize(cf_command).str
command_bytes == Normalize(cf_command).bytes

\* command_str.upper().startswith("SNAP")
IsSnap(str) == StartsWith(Upper(str), T_SNAP)

\* the whitelist of leading characters of a motor-bound command, SNAP excluded
IsMotorBound(str) ==
    /\ str # <<>>
    /\ ~StartsWith(Upper(str), T_SNAP)
    /\ str[1] \in {"T", "t", "W", "w", "S"}

\* command_str.upper() == "FIN" or command_str == Category.FIN.value
IsFinalize(str) == Upper(str) = T_FIN \/ str = CatFin

\* a router that tests the whitelist of leading characters first
BranchWhitelistFirst(str) ==
    IF str # <<>> /\ str[1] \in {"T", "t", "W", "w", "S"} THEN "motor"
    ELSE IF IsSnap(str) THEN "snap"
    ELSE IF IsFinalize(str) THEN "fin"
    ELSE "unknown"

\* the branch of command_follower a command text takes, in the code's order
Branch(str) ==
    IF IsSnap(str) THEN "snap"
    ELSE IF IsMotorBound(str) THEN "motor"
    ELSE IF IsFinalize(str) THEN "fin"
    ELSE "unknown"

\* request_algo is between its clear_queues() and its return
Refilling == ra_pc \in {"algo_put", "algo_unpause", "algo_done"}

\* queue.get() and the normalization; a command that cannot be normalized is dropped
CfGet ==
    /\ cf_pc = "get"
    /\ command_queue # <<>>
    /\ command_queue' = Tail(command_queue)
    /\ taken' = IF Refilling THEN taken + 1 ELSE taken
    /\ IF Normalize(Head(command_queue)).ok
       THEN cf_pc' = "wait" /\ cf_command' = Head(command_queue) /\ cf_last' = cf_last
       ELSE cf_pc' = "get" /\ cf_command' = NoCommand /\ cf_last' = "normalize_failed"
    /\ UNCHANGED <<path_queue, android_queue, rpi_action_queue, sync, stopped,
                   stmv, ra_pc, ra_action, ra_resp, popped, opv, current_location>>

\* a router that does not wait for the Unpause gate
CfWaitUnpauseNoGate ==
    /\ cf_pc = "wait"
    /\ cf_pc' = "acquire"
    /\ UNCHANGED <<queues, sync, cf_command, cf_last, stopped, stmv, rav, opv,
                   current_location>>

\* self.unpause.wait()
CfWaitUnpause ==
    /\ cf_pc = "wait"
    /\ unpause
    /\ cf_pc' = "acquire"
    /\ UNCHANGED <<queues, sync, cf_command, cf_last, stopped, stmv, rav, opv,
                   current_location>>

\* self.movement_lock.acquire()
CfAcquire ==
    /\ cf_pc = "acquire"
    /\ LockAcquire
    /\ cf_pc' = "dispatch"
    /\ UNCHANGED <<queues, unpause, finish_all, android_dropped, awaiting_ack,
                   cf_command, cf_last, stopped, stmv, rav, opv, current_location>>

\* 1) SNAP: the snapshot action is queued for the action processor
CfSnap ==
    /\ cf_pc = "dispatch"
    /\ Branch(command_str) = "snap"
    /\ rpi_action_queue' = Append(rpi_action_queue,
            PiAction(CatSnap, ValStr(SubSeq(command_str, 5, Len(command_str)))))
    /\ cf_pc' = "snap_release"
    /\ UNCHANGED <<command_queue, path_queue, android_queue, sync, cf_command,
                   cf_last, stopped, stmv, rav, opv, current_location>>

\* 1) SNAP: the lock is released (any exception is swallowed) and the loop continues
CfSnapRelease ==
    /\ cf_pc = "snap_release"
    /\ LockRelease
    /\ cf_pc' = "get"
    /\ cf_command' = NoCommand
    /\ cf_last' = "snap"
    /\ UNCHANGED <<queues, unpause, finish_all, android_dropped, awaiting_ack,
                   stopped, stmv, rav, opv, current_location>>

\* 2) motor-bound: send_cmd_raw succeeds; the motor controller will answer
CfSend ==
    /\ cf_pc = "dispatch"
    /\ Branch(command_str) = "motor"
    /\ stm_sent' = command_bytes
    /\ \E reply \in MotorReplies : stm_in' = stm_in \o reply
    /\ in_flight' = in_flight + 1
    /\ cf_pc' = "set_ack"
    /\ UNCHANGED <<queues, sync, cf_command, cf_last, stopped, stm_pc, stm_log, rav,
                   opv, current_location>>

\* 2) motor-bound: self.awaiting_ack.value = True, after the send
CfSetAck ==
    /\ cf_pc = "set_ack"
    /\ awaiting_ack' = TRUE
    /\ cf_pc' = "get"
    /\ cf_command' = NoCommand
    /\ cf_last' = "sent"
    /\ UNCHANGED <<queues, movement_lock, unpause, finish_all, android_dropped,
                   stopped, stmv, rav, opv, current_location>>

\* a send failure that leaves the lock held
CfSendFailsKeepLock ==
    /\ cf_pc = "dispatch"
    /\ Branch(command_str) = "motor"
    /\ cf_pc' = "get"
    /\ cf_command' = NoCommand
    /\ cf_last' = "send_failed"
    /\ UNCHANGED <<queues, sync, stopped, stmv, rav, opv, current_location>>

\* 2) motor-bound: send_cmd_raw raises; logged, lock released, loop continues
CfSendFails ==
    /\ cf_pc = "dispatch"
    /\ Branch(command_str) = "motor"
    /\ LockRelease
    /\ cf_pc' = "get"
    /\ cf_command' = NoCommand
    /\ cf_last' = "send_failed"
    /\ UNCHANGED <<queues, unpause, finish_all, android_dropped, awaiting_ack,
                   stopped, stmv, rav, opv, current_location>>

\* 3) FIN: self.unpause.clear()
CfFin ==
    /\ cf_pc = "dispatch"
    /\ Branch(command_str) = "fin"
    /\ unpause' = FALSE
    /\ cf_pc' = "fin_release"
    /\ UNCHANGED <<queues, movement_lock, finish_all, android_dropped, awaiting_ack,
                   cf_command, cf_last, stopped, stmv, rav, opv, current_location>>

\* 3) FIN: the lock is released (any exception is swallowed)
CfFinRelease ==
    /\ cf_pc = "fin_release"
    /\ LockRelease
    /\ cf_pc' = "fin_status"
    /\ UNCHANGED <<queues, unpause, finish_all, android_dropped, awaiting_ack,
                   cf_command, cf_last, stopped, stmv, rav, opv, current_location>>

\* 3) FIN: the "finished" status and the stitch action are queued
CfFinStatus ==
    /\ cf_pc = "fin_status"
    /\ AndroidPut(AndroidMessage(CatStatus, MsgText("finished")))
    /\ cf_pc' = "fin_stitch"
    /\ UNCHANGED <<command_queue, path_queue, rpi_action_queue, sync, cf_command,
                   cf_last, stopped, stmv, rav, opv, current_location>>

CfFinStitch ==
    /\ cf_pc = "fin_stitch"
    /\ rpi_action_queue' = Append(rpi_action_queue, PiAction(CatStitch, ValStr(<<>>)))
    /\ cf_pc' = "fin_wait"
    /\ UNCHANGED <<command_queue, path_queue, android_queue, sync, cf_command,
                   cf_last, stopped, stmv, rav, opv, current_location>>

\* a finalize branch that does not wait for the FinishAll gate
CfFinNoWait ==
    /\ cf_pc = "fin_wait"
    /\ finish_all' = FALSE
    /\ stopped' = TRUE
    /\ cf_pc' = "get"
    /\ cf_command' = NoCommand
    /\ cf_last' = "fin"
    /\ UNCHANGED <<queues, movement_lock, unpause, android_dropped, awaiting_ack,
                   stmv, rav, opv, current_location>>

\* 3) FIN: finish_all.wait(), finish_all.clear(), stop(), and the loop continues
CfFinWait ==
    /\ cf_pc = "fin_wait"
    /\ finish_all
    /\ finish_all' = FALSE
    /\ stopped' = TRUE
    /\ cf_pc' = "get"
    /\ cf_command' = NoCommand
    /\ cf_last' = "fin"
    /\ UNCHANGED <<queues, movement_lock, unpause, android_dropped, awaiting_ack,
                   stmv, rav, opv, current_location>>

\* 4) unknown command: logged, lock released (any exception is swallowed)
CfUnknown ==
    /\ cf_pc = "dispatch"
    /\ Branch(command_str) = "unknown"
    /\ LockRelease
    /\ cf_pc' = "get"
    /\ cf_command' = NoCommand
    /\ cf_last' = "unknown"
    /\ UNCHANGED <<queues, unpause, finish_all, android_dropped, awaiting_ack,
                   stopped, stmv, rav, opv, current_location>>

command_follower ==
    \/ CfGet \/ CfWaitUnpause \/ CfAcquire
    \/ CfSnap \/ CfSnapRelease
    \/ CfSend \/ CfSetAck \/ CfSendFails
    \/ CfFin \/ CfFinRelease \/ CfFinStatus \/ CfFinStitch \/ CfFinWait
    \/ CfUnknown

\* ------------------------------------------------ motor handshake handler
\* message.strip().upper() of the line at the head of the motor link
StmMessage == Upper(Strip(Head(stm_in)))

\* `if not message: continue`
StmEmpty ==
    /\ stm_pc = "recv"
    /\ stm_in # <<>>
    /\ Head(stm_in) = <<>>
    /\ stm_in' = Tail(stm_in)
    /\ UNCHANGED <<queues, sync, cfv, stm_pc, stm_sent, in_flight, stm_log, rav, opv,
                   current_location>>

\* an ACK handler that also releases the lock
StmAckReleases ==
    /\ stm_pc = "recv"
    /\ stm_in # <<>>
    /\ Head(stm_in) # <<>>
    /\ StartsWith(StmMessage, T_ACK)
    /\ stm_in' = Tail(stm_in)
    /\ awaiting_ack' = FALSE
    /\ stm_log' = IF awaiting_ack THEN "ack" ELSE "duplicate_ack"
    /\ LockRelease
    /\ UNCHANGED <<queues, unpause, finish_all, android_dropped, cfv, stm_pc,
                   stm_sent, in_flight, rav, opv, current_location>>

\* ACK: clears awaiting_ack when it is set, is ignored otherwise; no lock release
StmAck ==
    /\ stm_pc = "recv"
    /\ stm_in # <<>>
    /\ Head(stm_in) # <<>>
    /\ StartsWith(StmMessage, T_ACK)
    /\ stm_in' = Tail(stm_in)
    /\ awaiting_ack' = IF awaiting_ack THEN FALSE ELSE awaiting_ack
    /\ stm_log' = IF awaiting_ack THEN "ack" ELSE "duplicate_ack"
    /\ UNCHANGED <<queues, movement_lock, unpause, finish_all, android_dropped, cfv,
                   stm_pc, stm_sent, in_flight, rav, opv, current_location>>

\* a FIN handler that leaves MovementLock held
StmFinKeepsLock ==
    /\ stm_pc = "recv"
    /\ stm_in # <<>>
    /\ Head(stm_in) # <<>>
    /\ ~StartsWith(StmMessage, T_ACK)
    /\ StartsWith(StmMessage, T_FIN)
    /\ stm_in' = Tail(stm_in)
    /\ in_flight' = IF in_flight > 0 THEN in_flight - 1 ELSE 0
    /\ stm_log' = "fin"
    /\ stm_pc' = "forward"
    /\ UNCHANGED <<queues, sync, cfv, stm_sent, rav, opv, current_location>>

\* FIN: the lock is released, whether or not it is held and whatever awaiting_ack is
StmFin ==
    /\ stm_pc = "recv"
    /\ stm_in # <<>>
    /\ Head(stm_in) # <<>>
    /\ ~StartsWith(StmMessage, T_ACK)
    /\ StartsWith(StmMessage, T_FIN)
    /\ stm_in' = Tail(stm_in)
    /\ LockRelease
    /\ in_flight' = IF in_flight > 0 THEN in_flight - 1 ELSE 0
    /\ stm_log' = "fin"
    /\ stm_pc' = "forward"
    /\ UNCHANGED <<queues, unpause, finish_all, android_dropped, awaiting_ack, cfv,
                   stm_sent, rav, opv, current_location>>

\* a FIN handler that reports the head waypoint and leaves it in PathQueue
StmForwardPeeks ==
    /\ stm_pc = "forward"
    /\ IF path_queue # <<>>
       THEN AndroidPut(AndroidMessage(CatLocation, MsgLoc(Head(path_queue))))
       ELSE UNCHANGED android_queue
    /\ stm_pc' = "recv"
    /\ UNCHANGED <<command_queue, path_queue, rpi_action_queue, sync, cfv, stm_in,
                   stm_sent, in_flight, stm_log, rav, opv, current_location>>

\* FIN: the head waypoint, if any, is forwarded as a location message
StmForward ==
    /\ stm_pc = "forward"
    /\ IF path_queue # <<>>
       THEN /\ path_queue' = Tail(path_queue)
            /\ AndroidPut(AndroidMessage(CatLocation, MsgLoc(Head(path_queue))))
            /\ popped' = IF Refilling THEN popped + 1 ELSE popped
       ELSE UNCHANGED <<path_queue, android_queue, popped>>
    /\ stm_pc' = "recv"
    /\ UNCHANGED <<command_queue, rpi_action_queue, sync, cfv, stm_in, stm_sent,
                   in_flight, stm_log, ra_pc, ra_action, ra_resp, taken, opv,
                   current_location>>

\* any other line is logged and ignored
StmUnknown ==
    /\ stm_pc = "recv"
    /\ stm_in # <<>>
    /\ Head(stm_in) # <<>>
    /\ ~StartsWith(StmMessage, T_ACK)
    /\ ~StartsWith(StmMessage, T_FIN)
    /\ stm_in' = Tail(stm_in)
    /\ stm_log' = "unknown"
    /\ UNCHANGED <<queues, sync, cfv, stm_pc, stm_sent, in_flight, rav, opv,
                   current_location>>

recv_stm == StmEmpty \/ StmAck \/ StmFin \/ StmForward \/ StmUnknown

\* ------------------------------------------------------ action processor
\* a waypoint of a plan response
Waypoint(x, y, d) == [x |-> x, y |-> y, d |-> d]

\* What the path-planning service may answer to POST /path: a failure status,
\* no answer (the call raises), or a plan.
\* i and j count the commands and the waypoints request_algo has put so far.
NoResponse == [status |-> 0, raises |-> FALSE, commands |-> <<>>, path |-> <<>>,
               i |-> 0, j |-> 0]
PlanOk(commands, path) ==
    [status |-> 200, raises |-> FALSE, commands |-> commands, path |-> path,
     i |-> 0, j |-> 0]
PlanResponses ==
    { [NoResponse EXCEPT !.status = 500],
      [NoResponse EXCEPT !.raises = TRUE],
      PlanOk(<<>>, <<>>),
      PlanOk(<< PyStr(<<"S","N","A","P","1","_","C">>),
                PyStr(<<"T","1">>),
                PyStr(<<"W","2">>),
                PyStr(<<"F","I","N">>) >>,
             << Waypoint(1, 2, PyInt(<<"0">>)), Waypoint(1, 3, PyStr(<<"N">>)) >>),
      PlanOk(<< PyInt(<<"5">>),
                PyStr(<<"F","W","1">>),
                PyStr(<<"s","n","a","p","2">>) >>,
             << Waypoint(5, 5, PyInt(<<"2">>)) >>) }

\* what GET /stitch may answer
StitchResponses == {"200", "500", "raises"}

\* action = self.rpi_action_queue.get(), and the branch on its category
RaGet ==
    /\ ra_pc = "get"
    /\ rpi_action_queue # <<>>
    /\ rpi_action_queue' = Tail(rpi_action_queue)
    /\ LET action == Head(rpi_action_queue)
       IN  IF action.cat \in {CatObstacle, CatSnap, CatStitch}
           THEN ra_action' = action /\ ra_pc' = action.cat
           ELSE ra_action' = NoAction /\ ra_pc' = "get"
    /\ UNCHANGED <<command_queue, path_queue, android_queue, sync, cfv, stmv,
                   ra_resp, taken, popped, opv, current_location>>

\* OBSTACLE: the pose is set from the payload
RaObstacle ==
    /\ ra_pc = CatObstacle
    /\ current_location' = [x |-> ra_action.value.m.robot_x,
                            y |-> ra_action.value.m.robot_y,
                            d |-> ra_action.value.m.robot_dir]
    /\ ra_pc' = "algo_info"
    /\ UNCHANGED <<queues, sync, cfv, stmv, ra_action, ra_resp, taken, popped, opv>>

\* request_algo: the "Requesting path" message
RaAlgoInfo ==
    /\ ra_pc = "algo_info"
    /\ AndroidPut(AndroidMessage(CatInfo, MsgText("requesting")))
    /\ ra_pc' = "algo_post"
    /\ UNCHANGED <<command_queue, path_queue, rpi_action_queue, sync, cfv, stmv,
                   ra_action, ra_resp, taken, popped, opv, current_location>>

\* clear_queues() (base_rpi.py, not in src): both queues emptied at once
ClearQueues == command_queue' = <<>> /\ path_queue' = <<>>

\* a request_algo that clears the queues before it looks at the status
RaAlgoPostClearsEarly(resp) ==
    /\ ra_pc = "algo_post"
    /\ ClearQueues
    /\ IF resp.raises
       THEN /\ ra_pc' = "dead" /\ ra_action' = NoAction /\ ra_resp' = NoResponse
            /\ UNCHANGED <<android_queue, rpi_action_queue>>
       ELSE IF resp.status # 200
       THEN /\ AndroidPut(AndroidMessage(CatError, MsgText("algo")))
            /\ ra_pc' = "get" /\ ra_action' = NoAction /\ ra_resp' = NoResponse
            /\ UNCHANGED rpi_action_queue
       ELSE /\ IF resp.commands = <<>>
               THEN ra_pc' = "get" /\ ra_action' = NoAction /\ ra_resp' = NoResponse
               ELSE ra_pc' = "algo_put" /\ ra_action' = ra_action /\ ra_resp' = resp
            /\ UNCHANGED <<android_queue, rpi_action_queue>>
    /\ taken' = 0
    /\ popped' = 0
    /\ UNCHANGED <<sync, cfv, stmv, opv, current_location>>

\* request_algo: the POST and what follows it up to clear_queues().  A call that
\* raises ends rpi_action (nothing catches it); a status other than 200 is
\* reported; on 200 the queues are cleared, and an empty command list ends here.
RaAlgoPost(resp) ==
    /\ ra_pc = "algo_post"
    /\ IF resp.raises
       THEN /\ ra_pc' = "dead" /\ ra_action' = NoAction /\ ra_resp' = NoResponse
            /\ UNCHANGED queues
       ELSE IF resp.status # 200
       THEN /\ AndroidPut(AndroidMessage(CatError, MsgText("algo")))
            /\ ra_pc' = "get" /\ ra_action' = NoAction /\ ra_resp' = NoResponse
            /\ UNCHANGED <<command_queue, path_queue, rpi_action_queue>>
       ELSE /\ ClearQueues
            /\ IF resp.commands = <<>>
               THEN ra_pc' = "get" /\ ra_action' = NoAction /\ ra_resp' = NoResponse
               ELSE ra_pc' = "algo_put" /\ ra_action' = ra_action /\ ra_resp' = resp
            /\ UNCHANGED <<android_queue, rpi_action_queue>>
    /\ taken' = 0
    /\ popped' = 0
    /\ UNCHANGED <<sync, cfv, stmv, opv, current_location>>

\* a request_algo that puts each command at the front of the queue
RaAlgoPutFront ==
    /\ ra_pc = "algo_put"
    /\ IF ra_resp.i < Len(ra_resp.commands)
       THEN /\ command_queue' = <<ra_resp.commands[ra_resp.i + 1]>> \o command_queue
            /\ ra_resp' = [ra_resp EXCEPT !.i = @ + 1]
            /\ UNCHANGED <<path_queue, ra_pc>>
       ELSE IF ra_resp.j < Len(ra_resp.path)
       THEN /\ path_queue' = Append(path_queue, ra_resp.path[ra_resp.j + 1])
            /\ ra_resp' = [ra_resp EXCEPT !.j = @ + 1]
            /\ UNCHANGED <<command_queue, ra_pc>>
       ELSE /\ ra_pc' = "algo_unpause"
            /\ UNCHANGED <<command_queue, path_queue, ra_resp>>
    /\ UNCHANGED <<android_queue, rpi_action_queue, sync, cfv, stmv, ra_action,
                   taken, popped, opv, current_location>>

\* request_algo: one put per step, the commands first, then the waypoints
RaAlgoPut ==
    /\ ra_pc = "algo_put"
    /\ IF ra_resp.i < Len(ra_resp.commands)
       THEN /\ command_queue' = Append(command_queue, ra_resp.commands[ra_resp.i + 1])
            /\ ra_resp' = [ra_resp EXCEPT !.i = @ + 1]
            /\ UNCHANGED <<path_queue, ra_pc>>
       ELSE IF ra_resp.j < Len(ra_resp.path)
       THEN /\ path_queue' = Append(path_queue, ra_resp.path[ra_resp.j + 1])
            /\ ra_resp' = [ra_resp EXCEPT !.j = @ + 1]
            /\ UNCHANGED <<command_queue, ra_pc>>
       ELSE /\ ra_pc' = "algo_unpause"
            /\ UNCHANGED <<command_queue, path_queue, ra_resp>>
    /\ UNCHANGED <<android_queue, rpi_action_queue, sync, cfv, stmv, ra_action,
                   taken, popped, opv, current_location>>

\* request_algo: self.unpause.set()
RaAlgoUnpause ==
    /\ ra_pc = "algo_unpause"
    /\ unpause' = TRUE
    /\ ra_pc' = "algo_done"
    /\ UNCHANGED <<queues, movement_lock, finish_all, android_dropped, awaiting_ack,
                   cfv, stmv, ra_action, ra_resp, taken, popped, opv,
                   current_location>>

\* request_algo: the "Starting execution" message, and the handler returns
RaAlgoDone ==
    /\ ra_pc = "algo_done"
    /\ AndroidPut(AndroidMessage(CatInfo, MsgText("starting")))
    /\ ra_pc' = "get"
    /\ ra_action' = NoAction
    /\ ra_resp' = NoResponse
    /\ taken' = 0
    /\ popped' = 0
    /\ UNCHANGED <<command_queue, path_queue, rpi_action_queue, sync, cfv, stmv,
                   opv, current_location>>

\* recognize_image: obstacle_id, signal = value.split("_") needs exactly two parts
SnapValueOk(value) == Len(Split(value, "_")) = 2

\* SNAP: the value does not split in two; the exception ends rpi_action
RaSnapBadValue ==
    /\ ra_pc = CatSnap
    /\ ~SnapValueOk(ra_action.value.s)
    /\ ra_pc' = "dead"
    /\ ra_action' = NoAction
    /\ UNCHANGED <<queues, sync, cfv, stmv, ra_resp, taken, popped, opv,
                   current_location>>

\* SNAP: the "Capturing image" message
RaSnapInfo ==
    /\ ra_pc = CatSnap
    /\ SnapValueOk(ra_action.value.s)
    /\ AndroidPut(AndroidMessage(CatInfo, MsgText("capturing")))
    /\ ra_pc' = "snap_release"
    /\ UNCHANGED <<command_queue, path_queue, rpi_action_queue, sync, cfv, stmv,
                   ra_action, ra_resp, taken, popped, opv, current_location>>

\* SNAP: after the capture the lock is released; only RuntimeError is caught
RaSnapRelease ==
    /\ ra_pc = "snap_release"
    /\ LockRelease
    /\ \E raised \in IF ReleaseRaises THEN LockErrors ELSE {"none"} :
          IF raised \notin {"none", "RuntimeError"}
          THEN ra_pc' = "dead" /\ ra_action' = NoAction
          ELSE ra_pc' = "snap_result" /\ ra_action' = ra_action
    /\ UNCHANGED <<queues, unpause, finish_all, android_dropped, awaiting_ack, cfv,
                   stmv, ra_resp, taken, popped, opv, current_location>>

\* SNAP: the recognition result is reported
RaSnapResult ==
    /\ ra_pc = "snap_result"
    /\ AndroidPut(AndroidMessage(CatImageRec, MsgText("results")))
    /\ ra_pc' = "get"
    /\ ra_action' = NoAction
    /\ UNCHANGED <<command_queue, path_queue, rpi_action_queue, sync, cfv, stmv,
                   ra_resp, taken, popped, opv, current_location>>

\* a request_stitch that goes on to finish_all.set() after reporting a failure
RaStitchIgnoresStatus ==
    /\ ra_pc = CatStitch
    /\ \E status \in StitchResponses :
          IF status = "raises"
          THEN ra_pc' = "dead" /\ ra_action' = NoAction /\ UNCHANGED android_queue
          ELSE IF status # "200"
          THEN /\ AndroidPut(AndroidMessage(CatError, MsgText("stitch")))
               /\ ra_pc' = "stitch_set" /\ ra_action' = ra_action
          ELSE /\ AndroidPut(AndroidMessage(CatInfo, MsgText("stitched")))
               /\ ra_pc' = "stitch_set" /\ ra_action' = ra_action
    /\ UNCHANGED <<command_queue, path_queue, rpi_action_queue, sync, cfv, stmv,
                   ra_resp, taken, popped, opv, current_location>>

\* STITCH: request_stitch; on 200 the info message, then finish_all.set()
RaStitch ==
    /\ ra_pc = CatStitch
    /\ \E status \in StitchResponses :
          IF status = "raises"
          THEN ra_pc' = "dead" /\ ra_action' = NoAction /\ UNCHANGED android_queue
          ELSE IF status # "200"
          THEN /\ AndroidPut(AndroidMessage(CatError, MsgText("stitch")))
               /\ ra_pc' = "get" /\ ra_action' = NoAction
          ELSE /\ AndroidPut(AndroidMessage(CatInfo, MsgText("stitched")))
               /\ ra_pc' = "stitch_set" /\ ra_action' = ra_action
    /\ UNCHANGED <<command_queue, path_queue, rpi_action_queue, sync, cfv, stmv,
                   ra_resp, taken, popped, opv, current_location>>

RaStitchSet ==
    /\ ra_pc = "stitch_set"
    /\ finish_all' = TRUE
    /\ ra_pc' = "get"
    /\ ra_action' = NoAction
    /\ UNCHANGED <<queues, movement_lock, unpause, android_dropped, awaiting_ack,
                   cfv, stmv, ra_resp, taken, popped, opv, current_location>>

\* ------------------------------------------------------ operator receiver
\* What android_link.recv() returns: a text that json.loads decodes to `obj`
\* (json = TRUE), or a legacy line (json = FALSE).
NoObj == [dict |-> FALSE, has_cat |-> FALSE, cat |-> "", value |-> [s |-> "", m |-> NoPayload]]
Line(text) == [json |-> FALSE, text |-> text, obj |-> NoObj]
Json(obj) == [json |-> TRUE, text |-> <<>>, obj |-> obj]
Envelope(cat, text, payload) ==
    [dict |-> TRUE, has_cat |-> TRUE, cat |-> cat, value |-> [s |-> text, m |-> payload]]

\* json.loads also decodes a line that is a JSON scalar (a number, true, false, null)
JsonDecodes(pkt) ==
    \/ pkt.json
    \/ IsIntText(pkt.text) /\ pkt.text[1] # "+"
    \/ pkt.text \in {<<"t","r","u","e">>, <<"f","a","l","s","e">>, <<"n","u","l","l">>}

InRange(x, y) == 0 <= x /\ x <= 19 /\ 0 <= y /\ y <= 19

JoystickTokens == {<<"f">>, <<"b">>, <<"f","r">>, <<"f","l">>, <<"b","r">>, <<"b","l">>}
JoystickMapping(tok) ==
    IF tok = <<"f">> THEN <<"F","W","1">>
    ELSE IF tok = <<"b">> THEN <<"B","W","1">>
    ELSE IF tok = <<"f","r">> THEN <<"T","R","9","0">>
    ELSE IF tok = <<"f","l">> THEN <<"T","L","9","0">>
    ELSE IF tok = <<"b","r">> THEN <<"B","R">>
    ELSE <<"B","L">>
DirectPrefixes == {<<"f","w">>, <<"b","w">>, <<"t","l">>, <<"t","r">>}

\* the branch of recv_android a packet takes, given the accumulator
Classify(pkt, accum) ==
    IF JsonDecodes(pkt)
    THEN IF ~pkt.json \/ ~pkt.obj.dict \/ ~pkt.obj.has_cat THEN "crash"
         ELSE IF pkt.obj.cat = CatObstacle THEN "json_obstacle"
         ELSE IF pkt.obj.cat = "control" THEN
              IF pkt.obj.value.s = "start" THEN "json_start" ELSE "json_other"
         ELSE "json_other"
    ELSE LET parts == Split(pkt.text, ",")
             head == Upper(parts[1])
         IN  IF head = <<"R","O","B","O","T">>
             THEN IF Len(parts) < 3 \/ ~IsIntText(parts[2]) \/ ~IsIntText(parts[3])
                  THEN "crash"
                  ELSE IF ~InRange(IntOf(parts[2]), IntOf(parts[3])) THEN "reject"
                  ELSE IF Len(parts) < 4 THEN "crash"
                  ELSE "robot"
             ELSE IF head = <<"O","B","S","T","A","C","L","E">>
             THEN IF Len(parts) < 4 \/ ~IsIntText(parts[2]) \/ ~IsIntText(parts[3])
                     \/ ~IsIntText(parts[4])
                  THEN "crash"
                  ELSE IF ~InRange(IntOf(parts[3]), IntOf(parts[4])) THEN "reject"
                  ELSE IF Len(parts) < 5 THEN "crash"
                  ELSE "obstacle"
             ELSE IF head = <<"B","E","G","I","N">>
             THEN IF accum # <<>> THEN "begin" ELSE "begin_empty"
             ELSE IF Lower(pkt.text) \in JoystickTokens THEN "joystick"
             ELSE IF \E pre \in DirectPrefixes : StartsWith(Lower(pkt.text), pre)
             THEN "direct"
             ELSE IF Upper(pkt.text) = <<"C","L","E","A","R">> THEN "clear"
             ELSE "unrecognized"

\* the payload of the event a ROBOT line emits
RobotEvent(pkt, accum) ==
    LET parts == Split(pkt.text, ",")
    IN  [robot_x |-> IntOf(parts[2]), robot_y |-> IntOf(parts[3]),
         robot_dir |-> DIR_MAP_STR_TO_CODE(parts[4]), obstacles |-> accum]

\* the record an OBSTACLE line appends
ObstacleRecord(pkt) ==
    LET parts == Split(pkt.text, ",")
    IN  [id |-> IntOf(parts[2]), x |-> IntOf(parts[3]), y |-> IntOf(parts[4]),
         d |-> DIR_MAP_STR_TO_CODE(parts[5])]

\* a BEGIN event that reports the origin instead of the pose
BeginEventOrigin(accum) ==
    [robot_x |-> 0, robot_y |-> 0, robot_dir |-> 0, obstacles |-> accum]

\* the payload of the event a BEGIN line emits
BeginEvent(accum) ==
    [robot_x |-> current_location.x, robot_y |-> current_location.y,
     robot_dir |-> current_location.d, obstacles |-> accum]

\* an accumulator that puts the newest obstacle first
AccumulatePrepend(accum, obs) == <<obs>> \o accum

\* obstacles_accum.append(obs)
Accumulate(accum, obs) == Append(accum, obs)

\* one iteration of recv_android on the packet recv() returned
RecvAndroid(pkt) ==
    /\ recv_pc = "run"
    /\ pkt_left > 0
    /\ pkt_left' = pkt_left - 1
    /\ LET branch == Classify(pkt, obstacles_accum)
       IN  /\ recv_log' = IF branch \in {"robot", "begin"} THEN <<pkt>>
                        ELSE Append(recv_log, pkt)
           /\ recv_pc' = IF branch = "crash" THEN "dead" ELSE "run"
           /\ obstacles_accum' =
                 IF branch \in {"robot", "begin"} THEN <<>>
                 ELSE IF branch = "obstacle"
                 THEN Accumulate(obstacles_accum, ObstacleRecord(pkt))
                 ELSE obstacles_accum
           /\ rpi_action_queue' =
                 IF branch = "robot"
                 THEN Append(rpi_action_queue,
                        PiAction(CatObstacle, ValMap(RobotEvent(pkt, obstacles_accum))))
                 ELSE IF branch = "begin"
                 THEN Append(rpi_action_queue,
                        PiAction(CatObstacle, ValMap(BeginEvent(obstacles_accum))))
                 ELSE IF branch = "json_obstacle"
                 THEN Append(rpi_action_queue,
                        PiAction(CatObstacle, ValMap(pkt.obj.value.m)))
                 ELSE rpi_action_queue
           /\ IF branch = "joystick"
              THEN /\ command_queue' = Append(command_queue,
                                              PyStr(JoystickMapping(Lower(pkt.text))))
                   /\ UNCHANGED path_queue
              ELSE IF branch = "direct"
              THEN /\ command_queue' = Append(command_queue, PyStr(Upper(pkt.text)))
                   /\ UNCHANGED path_queue
              ELSE IF branch = "clear" THEN ClearQueues
              ELSE UNCHANGED <<command_queue, path_queue>>
           /\ IF branch = "json_start"
              THEN IF command_queue # <<>>
                   THEN /\ unpause' = TRUE
                        /\ AndroidPut(AndroidMessage(CatInfo, MsgText("starting robot")))
                   ELSE /\ unpause' = unpause
                        /\ AndroidPut(AndroidMessage(CatError, MsgText("command queue empty")))
              ELSE UNCHANGED <<unpause, android_queue>>
    /\ UNCHANGED <<movement_lock, finish_all, android_dropped, awaiting_ack, cfv,
                   stmv, rav, linkv, current_location>>

\* ------------------------------------------------------- outbound sender
\* "".join(chars): the text of a sequence of characters
RECURSIVE Text(_)
Text(chars) == IF chars = <<>> THEN "" ELSE Head(chars) \o Text(Tail(chars))

\* str(v) of a mapping's value: the number, or the string itself
StrOf(v) == Text(v.s)

\* AndroidMessage.to_string: "cat;value"; a mapping's values are joined with ';',
\* and a location's d is looked up in DIR_MAP_STR_TO_CODE when it is a string
to_string(message) ==
    IF message.value.t = "dict"
    THEN IF message.cat = CatLocation
         THEN LET x == message.value.loc.x
                  y == message.value.loc.y
                  d == message.value.loc.d
                  code == IF d.t = "str" THEN ToString(DIR_MAP_STR_TO_CODE(d.s))
                          ELSE StrOf(d)
              IN  message.cat \o ";" \o ToString(x) \o ";" \o ToString(y) \o ";" \o code
         ELSE message.cat \o ";" \o ToString(message.value.loc.x)
                         \o ";" \o ToString(message.value.loc.y)
                         \o ";" \o StrOf(message.value.loc.d)
    ELSE message.cat \o ";" \o message.value.s

\* AndroidLink.send on a connected socket: the line written
SendLine(message) == to_string(message) \o "\n"

\* android_controller, one whole iteration on a connected link: a message is
\* taken from the queue and sent (the line written is not kept)
AndroidSend ==
    /\ ac_pc = "get"
    /\ link_up
    /\ android_queue # <<>>
    /\ android_queue' = Tail(android_queue)
    /\ UNCHANGED <<command_queue, path_queue, rpi_action_queue, sync, cfv, stmv, rav,
                   opv, current_location>>

\* android_controller, step by step: message = self.android_queue.get(timeout=0.05)
AcGet ==
    /\ ac_pc = "get"
    /\ android_queue # <<>>
    /\ ac_msg' = Head(android_queue)
    /\ android_queue' = Tail(android_queue)
    /\ ac_pc' = "send"
    /\ UNCHANGED <<command_queue, path_queue, rpi_action_queue, sync, cfv, stmv, rav,
                   obstacles_accum, recv_pc, pkt_left, recv_log,
                   link_up, link_out, ac_failed, sup_pc, current_location>>

\* self.android_link.send(message) returns
AcSendOk ==
    /\ ac_pc = "send"
    /\ link_up
    /\ link_out' = SendLine(ac_msg)
    /\ ac_msg' = NoMessage
    /\ ac_pc' = "get"
    /\ UNCHANGED <<queues, sync, cfv, stmv, rav, obstacles_accum, recv_pc, pkt_left,
                   recv_log, link_up, ac_failed, sup_pc, current_location>>

\* self.android_link.send(message) raises OSError: the flag is set, the message
\* is gone and the loop goes on to the next get
AcSendFails ==
    /\ ac_pc = "send"
    /\ ~link_up
    /\ android_dropped' = TRUE
    /\ ac_failed' = TRUE
    /\ ac_msg' = NoMessage
    /\ ac_pc' = "get"
    /\ UNCHANGED <<queues, movement_lock, unpause, finish_all, awaiting_ack, cfv, stmv,
                   rav, obstacles_accum, recv_pc, pkt_left, recv_log, link_up, link_out,
                   sup_pc, current_location>>

android_controller == AcGet \/ AcSendOk \/ AcSendFails

\* recv_android: self.android_link.recv() raises OSError, the flag is set
RecvFails ==
    /\ recv_pc = "run"
    /\ ~link_up
    /\ android_dropped' = TRUE
    /\ UNCHANGED <<queues, movement_lock, unpause, finish_all, awaiting_ack, cfv, stmv,
                   rav, opv, current_location>>

\* the operator link goes down: from now on send and recv raise OSError
LinkDrop ==
    /\ link_up
    /\ link_up' = FALSE
    /\ UNCHANGED <<queues, sync, cfv, stmv, rav, obstacles_accum, recv_pc, pkt_left,
                   recv_log, link_out, ac_pc, ac_msg, ac_failed, sup_pc,
                   current_location>>

\* --------------------------------------------------- reconnect supervisor
\* a supervisor that also frees MovementLock when it stops the workers
SupKillReleasesLock ==
    /\ sup_pc = "wait"
    /\ android_dropped
    /\ ac_pc' = "killed" /\ ac_msg' = NoMessage
    /\ recv_pc' = "killed"
    /\ movement_lock' = FALSE
    /\ sup_pc' = "connect"
    /\ UNCHANGED <<queues, unpause, finish_all, android_dropped, awaiting_ack, cfv, stmv,
                   rav, obstacles_accum, pkt_left, recv_log, link_up, link_out,
                   ac_failed, current_location>>

\* android_dropped.wait() returns; both operator-facing workers are killed and
\* joined (the message the sender held is lost with it)
SupKill ==
    /\ sup_pc = "wait"
    /\ android_dropped
    /\ ac_pc' = "killed" /\ ac_msg' = NoMessage
    /\ recv_pc' = "killed"
    /\ sup_pc' = "connect"
    /\ UNCHANGED <<queues, sync, cfv, stmv, rav, obstacles_accum, pkt_left, recv_log,
                   link_up, link_out, ac_failed, current_location>>

\* android_link.disconnect(); android_link.connect(): accept() returns when the
\* operator connects again
SupConnect ==
    /\ sup_pc = "connect"
    /\ link_up' = TRUE
    /\ sup_pc' = "restart"
    /\ UNCHANGED <<queues, sync, cfv, stmv, rav, obstacles_accum, recv_pc, pkt_left,
                   recv_log, link_out, ac_pc, ac_msg, ac_failed, current_location>>

\* both workers are created anew and started; recv_android starts with an
\* empty accumulator
SupRestart ==
    /\ sup_pc = "restart"
    /\ recv_pc' = "run" /\ obstacles_accum' = <<>>
    /\ ac_pc' = "get" /\ ac_failed' = FALSE
    /\ sup_pc' = "announce"
    /\ UNCHANGED <<queues, sync, cfv, stmv, rav, pkt_left, recv_log, link_up, link_out,
                   ac_msg, current_location>>

\* android_queue.put(AndroidMessage(INFO, "You are reconnected!"))
SupAnnounce ==
    /\ sup_pc = "announce"
    /\ AndroidPut(AndroidMessage(CatInfo, MsgText("You are reconnected!")))
    /\ sup_pc' = "mode"
    /\ UNCHANGED <<command_queue, path_queue, rpi_action_queue, sync, cfv, stmv, rav,
                   obstacles_accum, recv_pc, pkt_left, recv_log, link_up, link_out,
                   ac_pc, ac_msg, ac_failed, current_location>>

\* android_queue.put(AndroidMessage(MODE, "path"))
SupMode ==
    /\ sup_pc = "mode"
    /\ AndroidPut(AndroidMessage(CatMode, MsgText("path")))
    /\ sup_pc' = "clear"
    /\ UNCHANGED <<command_queue, path_queue, rpi_action_queue, sync, cfv, stmv, rav,
                   obstacles_accum, recv_pc, pkt_left, recv_log, link_up, link_out,
                   ac_pc, ac_msg, ac_failed, current_location>>

\* android_dropped.clear(), and back to android_dropped.wait()
SupClear ==
    /\ sup_pc = "clear"
    /\ android_dropped' = FALSE
    /\ sup_pc' = "wait"
    /\ UNCHANGED <<queues, movement_lock, unpause, finish_all, awaiting_ack, cfv, stmv,
                   rav, obstacles_accum, recv_pc, pkt_left, recv_log, link_up, link_out,
                   ac_pc, ac_msg, ac_failed, current_location>>

reconnect_android ==
    SupKill \/ SupConnect \/ SupRestart \/ SupAnnounce \/ SupMode \/ SupClear

\* ------------------------------------------------------- specifications
T_ROBOT_1_1_N == <<"R","O","B","O","T",",","1",",","1",",","N">>
T_CLEAR == <<"C","L","E","A","R">>

\* the operator packets of the mission specification
CorePackets ==
    { Line(T_ROBOT_1_1_N)
}

\* the state after construction: queues empty, gates closed, lock free
InitCommon ==
    /\ command_queue = <<>> /\ path_queue = <<>>
    /\ android_queue = <<>> /\ rpi_action_queue = <<>>
    /\ movement_lock = FALSE /\ unpause = FALSE /\ finish_all = FALSE
    /\ android_dropped = FALSE /\ awaiting_ack = FALSE
    /\ current_location = [x |-> 0, y |-> 0, d |-> 0]
    /\ obstacles_accum = <<>> /\ recv_pc = "run"
    /\ cf_pc = "get" /\ cf_command = NoCommand /\ cf_last = "none" /\ stopped = FALSE
    /\ stm_pc = "recv" /\ stm_in = <<>> /\ stm_sent = <<>> /\ in_flight = 0
    /\ stm_log = "none"
    /\ ra_pc = "get" /\ ra_action = NoAction /\ ra_resp = NoResponse
    /\ taken = 0 /\ popped = 0
    /\ recv_log = <<>>
    /\ link_up = TRUE /\ link_out = ""
    /\ ac_pc = "get" /\ ac_msg = NoMessage /\ ac_failed = FALSE
    /\ sup_pc = "wait"

Init == InitCommon /\ pkt_left = MaxPackets

RecvCore == \E pkt \in CorePackets : RecvAndroid(pkt)

RaAlgoPostCore == \E resp \in PlanResponses : RaAlgoPost(resp)

\* the action processor, without the POST (each specification has its own)
rpi_action ==
    \/ RaGet \/ RaObstacle \/ RaAlgoInfo \/ RaAlgoPut \/ RaAlgoUnpause \/ RaAlgoDone
    \/ RaSnapBadValue \/ RaSnapInfo \/ RaSnapRelease \/ RaSnapResult
    \/ RaStitch \/ RaStitchSet

Next ==
    \/ command_follower \/ recv_stm \/ rpi_action \/ RaAlgoPostCore
    \/ RecvCore \/ AndroidSend

Spec == Init /\ [][Next]_vars

\* the mission specification with every worker process scheduled fairly: each
\* worker takes its next step when it can, a send returns or raises, and the
\* motor controller's answer to a sent command is on the motor link (CfSend)
SpecFair ==
    Init /\ [][Next]_vars
    /\ WF_vars(command_follower) /\ WF_vars(recv_stm)
    /\ WF_vars(rpi_action \/ RaAlgoPostCore) /\ WF_vars(AndroidSend)

\* ---------------------------------------------- parser specification
\* The operator receiver with the action processor behind it, on packets that
\* queue no command: the plan service answers with a failure or an empty plan,
\* so that CommandQueue stays empty and the router and the motor handler wait.
T_OBSTACLE_1_3_7_N == <<"O","B","S","T","A","C","L","E",",","1",",","3",",","7",",","N">>
T_OBSTACLE_2_10_10_E ==
    <<"o","b","s","t","a","c","l","e",",","2",",","1","0",",","1","0",",","E">>
T_OBSTACLE_3_5_25_S == <<"O","B","S","T","A","C","L","E",",","3",",","5",",","2","5",",","S">>
T_OBSTACLE_4_M1_5_W == <<"O","B","S","T","A","C","L","E",",","4",",","-","1",",","5",",","W">>
T_ROBOT_20_1_N == <<"R","O","B","O","T",",","2","0",",","1",",","N">>
T_BEGIN == <<"B","E","G","I","N">>

\* structured obstacle payloads: one with the pose outside the arena, one inside
PayloadOut == [robot_x |-> 25, robot_y |-> 3, robot_dir |-> 0, obstacles |-> <<>>]
PayloadIn ==
    [robot_x |-> 2, robot_y |-> 2, robot_dir |-> 2,
     obstacles |-> << [id |-> 9, x |-> 4, y |-> 4, d |-> 0] >>]

ParserPackets ==
    { Line(T_OBSTACLE_1_3_7_N), Line(T_OBSTACLE_2_10_10_E), Line(T_OBSTACLE_3_5_25_S),
      Line(T_OBSTACLE_4_M1_5_W), Line(T_ROBOT_1_1_N), Line(T_ROBOT_20_1_N),
      Line(T_BEGIN),
      Json(Envelope(CatObstacle, <<>>, PayloadOut)),
      Json(Envelope(CatObstacle, <<>>, PayloadIn)) }

ParserResponses == { [NoResponse EXCEPT !.status = 500], PlanOk(<<>>, <<>>) }

InitParser == InitCommon /\ pkt_left = MaxParserPackets

RecvParser == \E pkt \in ParserPackets : RecvAndroid(pkt)

RaAlgoPostParser == \E resp \in ParserResponses : RaAlgoPost(resp)

NextParser ==
    \/ RecvParser \/ RaGet \/ RaObstacle \/ RaAlgoInfo \/ RaAlgoPostParser
    \/ AndroidSend

SpecParser == InitParser /\ [][NextParser]_vars

\* -------------------------------------------- operator specification
\* The operator drives the robot by hand and sends malformed packets: joystick
\* and direct motor tokens, a pose report that starts a plan request, and
\* packets the parser cannot take apart.  The router and the motor handler run.
T_JOY_B == <<"b">>
T_JOY_FR == <<"F","r">>
T_DIRECT_FW10 == <<"F","w","1","0">>
T_ROBOT_SHORT == <<"R","O","B","O","T",",","1">>
T_OBSTACLE_NAN == <<"O","B","S","T","A","C","L","E",",","1",",","x",",","7",",","N">>
T_SCALAR == <<"5">>

OperatorPackets ==
    { Line(T_JOY_B), Line(T_JOY_FR), Line(T_DIRECT_FW10),
      Line(T_ROBOT_SHORT), Line(T_OBSTACLE_NAN), Line(T_SCALAR),
      Json([NoObj EXCEPT !.dict = TRUE]),
      Line(T_ROBOT_1_1_N) }

OperatorResponses ==
    { [NoResponse EXCEPT !.status = 500],
      PlanOk(<<>>, <<>>),
      PlanOk(<< PyStr(<<"T","1">>) >>, << Waypoint(1, 2, PyInt(<<"0">>)) >>) }

InitOperator == InitCommon /\ pkt_left = MaxOperatorPackets

RecvOperator == \E pkt \in OperatorPackets : RecvAndroid(pkt)

RaAlgoPostOperator == \E resp \in OperatorResponses : RaAlgoPost(resp)

NextOperator ==
    \/ RecvOperator
    \/ RaGet \/ RaObstacle \/ RaAlgoInfo \/ RaAlgoPostOperator
    \/ RaAlgoPut \/ RaAlgoUnpause \/ RaAlgoDone
    \/ CfGet \/ CfWaitUnpause \/ CfAcquire \/ CfSend \/ CfSetAck \/ CfUnknown
    \/ recv_stm
    \/ AndroidSend

SpecOperator == InitOperator /\ [][NextOperator]_vars

\* ------------------------------------------------- link specification
\* joystick commands started by the operator's control message, with the
\* operator link going down and the reconnect supervisor recovering it
T_START == "start"
LinkPackets ==
    { Line(T_JOY_FR), Json(Envelope("control", T_START, NoPayload)) }

InitLink == InitCommon /\ pkt_left = MaxLinkPackets

RecvLink == \E pkt \in LinkPackets : RecvAndroid(pkt)

NextLink ==
    \/ RecvLink \/ RecvFails \/ LinkDrop
    \/ android_controller \/ reconnect_android
    \/ CfGet \/ CfWaitUnpause \/ CfAcquire \/ CfSend \/ CfSetAck
    \/ recv_stm

SpecLink == InitLink /\ [][NextLink]_vars

\* the link specification with every worker process scheduled fairly: the
\* supervisor and the outbound sender take their next step when they can, and
\* accept() returns. Nothing forces the receiver's OSError: on a link the peer
\* has closed recv() returns nothing instead of raising (android.py l.123-126).
SpecLinkFair ==
    InitLink /\ [][NextLink]_vars
    /\ WF_vars(reconnect_android) /\ WF_vars(android_controller)

\* ------------------------------------------- serialization specification
\* the d a mapping may hold: compass strings in either case, a string that is
\* no compass point, numeric codes of the set and numbers outside it
SerialDirections ==
    { PyStr(<<"N">>), PyStr(<<"e">>), PyStr(<<"W","E","S","T">>), PyStr(<<"X">>),
      PyInt(<<"0">>), PyInt(<<"4">>), PyInt(<<"3">>), PyInt(<<"8">>) }

\* the messages to serialize: mappings of category location and of another
\* category, and plain texts
SerialMessages ==
    { AndroidMessage(cat, MsgLoc(Waypoint(x, y, d))) :
          cat \in {CatLocation, CatImageRec}, x \in 0..MaxCoord, y \in 0..MaxCoord,
          d \in SerialDirections }
    \cup { AndroidMessage(CatInfo, MsgText("starting robot")),
           AndroidMessage(CatMode, MsgText("path")) }

\* as InitCommon, with one message waiting in OutboundQueue
InitSerial ==
    /\ command_queue = <<>> /\ path_queue = <<>> /\ rpi_action_queue = <<>>
    /\ android_queue \in { <<message>> : message \in SerialMessages }
    /\ movement_lock = FALSE /\ unpause = FALSE /\ finish_all = FALSE
    /\ android_dropped = FALSE /\ awaiting_ack = FALSE
    /\ current_location = [x |-> 0, y |-> 0, d |-> 0]
    /\ obstacles_accum = <<>> /\ recv_pc = "run"
    /\ cf_pc = "get" /\ cf_command = NoCommand /\ cf_last = "none" /\ stopped = FALSE
    /\ stm_pc = "recv" /\ stm_in = <<>> /\ stm_sent = <<>> /\ in_flight = 0
    /\ stm_log = "none"
    /\ ra_pc = "get" /\ ra_action = NoAction /\ ra_resp = NoResponse
    /\ taken = 0 /\ popped = 0
    /\ recv_log = <<>> /\ pkt_left = 0
    /\ link_up = TRUE /\ link_out = ""
    /\ ac_pc = "get" /\ ac_msg = NoMessage /\ ac_failed = FALSE
    /\ sup_pc = "wait"

NextSerial == AcGet \/ AcSendOk

SpecSerial == InitSerial /\ [][NextSerial]_vars

\* ----------------------------------------------- direction specification
\* the direction fields a legacy line may carry: compass designators in either
\* case, short or in full, and the numeric codes
DirectionTexts ==
    { <<"N">>, <<"e">>, <<"S","o","u","t","h">>, <<"W","E","S","T">>,
      <<"0">>, <<"2">>, <<"4">>, <<"6">> }

RobotLine(d) == Line(<<"R","O","B","O","T",",","1",",","1",",">> \o d)
ObstacleLine(d) == Line(<<"O","B","S","T","A","C","L","E",",","1",",","3",",","7",",">> \o d)

DirectionPackets ==
    { RobotLine(d) : d \in DirectionTexts } \cup { ObstacleLine(d) : d \in DirectionTexts }

InitDirection == InitCommon /\ pkt_left = MaxDirectionPackets

RecvDirection == \E pkt \in DirectionPackets : RecvAndroid(pkt)

NextDirection == RecvDirection \/ RaGet

SpecDirection == InitDirection /\ [][NextDirection]_vars

\* ------------------------------------------------ recovery specification
\* obstacles and a pose arriving while the operator link goes down and the
\* reconnect supervisor recovers it
RecoveryPackets == { Line(T_OBSTACLE_1_3_7_N), Line(T_ROBOT_1_1_N) }

InitRecovery == InitCommon /\ pkt_left = MaxLinkPackets

RecvRecovery == \E pkt \in RecoveryPackets : RecvAndroid(pkt)

NextRecovery ==
    \/ RecvRecovery \/ RecvFails \/ LinkDrop
    \/ android_controller \/ reconnect_android
    \/ RaGet

SpecRecovery == InitRecovery /\ [][NextRecovery]_vars

\* ------------------------------------------------------------------ claims
\* C1 (as claimed): in every reachable state at most one movement command is in
\* flight on the motor link, snapshot commands interleaved or not
C1_AtMostOneInFlight == in_flight <= 1

\* C2 (as claimed): a motor FIN processed while AwaitingAck is still true does
\* not release MovementLock; the lock is released on FIN only after the ACK
C2_FinWaitsForAck ==
    [][ (stm_pc = "recv" /\ stm_pc' = "forward" /\ awaiting_ack)
            => movement_lock' = movement_lock ]_vars

\* the router's step from the dispatch point on a snapshot-prefixed command
SnapDispatch == cf_pc = "dispatch" /\ IsSnap(command_str) /\ cf_pc' # cf_pc

\* C3: a snapshot-prefixed command is never forwarded to the motor link: the
\* bytes sent are never snapshot-prefixed, and the router's step on such a command
\* sends nothing and appends the snapshot action to the action processor's queue
C3_SnapNeverSent ==
    /\ [](~IsSnap(Strip(stm_sent)))
    /\ [][ SnapDispatch =>
             /\ stm_sent' = stm_sent /\ stm_in' = stm_in /\ in_flight' = in_flight
             /\ rpi_action_queue' =
                   Append(rpi_action_queue,
                          PiAction(CatSnap, ValStr(SubSeq(command_str, 5, Len(command_str)))))
             /\ cf_pc' = "snap_release" ]_vars

\* the router has routed a snapshot command and nothing was ever sent to the motor
C3_Witness == cf_pc = "snap_release" /\ IsSnap(command_str) /\ stm_sent = <<>>

\* C4: every send of a movement command happens with Unpause open, at the
\* router's dispatch point, which the router reaches only by acquiring
\* MovementLock from the free state
C4_SendGated ==
    /\ [][ in_flight' = in_flight + 1 => unpause /\ cf_pc = "dispatch" ]_vars
    /\ [][ (cf_pc # "dispatch" /\ cf_pc' = "dispatch")
              => cf_pc = "acquire" /\ ~movement_lock /\ movement_lock' ]_vars

\* a movement command has just been sent, the gate open
C4_Witness == cf_pc = "set_ack" /\ unpause /\ in_flight = 1 /\ stm_sent # <<>>

\* the plan-request handler returns from a successful, non-empty plan response
AlgoReturns == ra_pc = "algo_done" /\ ra_pc' = "get"

\* C5 (as claimed): when the plan-request handler has processed a plan of N
\* commands and M waypoints, CommandQueue holds N entries, PathQueue M entries and
\* Unpause is open, the router and the motor handler running concurrently
C5_QueuesHoldWholePlan ==
    [][ AlgoReturns =>
          /\ Len(command_queue') = Len(ra_resp.commands)
          /\ Len(path_queue') = Len(ra_resp.path)
          /\ unpause' ]_vars

\* C5 (amended): the handler has put all N commands and M waypoints, in response
\* order, and opened Unpause; when it returns CommandQueue holds the plan's
\* commands less the ones the router has dequeued meanwhile and PathQueue the
\* waypoints less the ones a motor FIN has popped meanwhile; and Unpause is closed
\* again only by the router dispatching a finalize sentinel
C5_QueuesHoldRestOfPlan ==
    /\ [][ AlgoReturns =>
             /\ ra_resp.i = Len(ra_resp.commands) /\ ra_resp.i >= 1
             /\ ra_resp.j = Len(ra_resp.path)
             /\ command_queue' =
                   SubSeq(ra_resp.commands, taken + 1, Len(ra_resp.commands))
             /\ path_queue' = SubSeq(ra_resp.path, popped + 1, Len(ra_resp.path)) ]_vars
    /\ [][ (ra_pc = "algo_unpause" /\ ra_pc' = "algo_done") => unpause' ]_vars
    /\ [][ (unpause /\ ~unpause') => cf_pc = "dispatch" /\ IsFinalize(command_str) ]_vars

\* the handler has just returned: its last message is queued, commands wait, gate open
C5_Witness ==
    /\ ra_pc = "get" /\ unpause /\ command_queue # <<>>
    /\ android_queue # <<>> /\ Head(android_queue).value.s = "starting"

\* a packet carries a coordinate pair outside [0,19] x [0,19]
CarriesOutOfRange(pkt) ==
    IF pkt.json
    THEN /\ pkt.obj.dict /\ pkt.obj.has_cat /\ pkt.obj.cat = CatObstacle
         /\ LET m == pkt.obj.value.m
            IN  \/ m.robot_x < 0 \/ m.robot_x > 19 \/ m.robot_y < 0 \/ m.robot_y > 19
                \/ \E k \in 1..Len(m.obstacles) :
                      \/ m.obstacles[k].x < 0 \/ m.obstacles[k].x > 19
                      \/ m.obstacles[k].y < 0 \/ m.obstacles[k].y > 19
    ELSE LET parts == Split(pkt.text, ",")
             at == IF Upper(parts[1]) = <<"R","O","B","O","T">> THEN 2
                   ELSE IF Upper(parts[1]) = <<"O","B","S","T","A","C","L","E">> THEN 3
                   ELSE 0
         IN  /\ at > 0 /\ Len(parts) > at
             /\ IsIntText(parts[at]) /\ IsIntText(parts[at + 1])
             /\ \/ IntOf(parts[at]) < 0 \/ IntOf(parts[at]) > 19
                \/ IntOf(parts[at + 1]) < 0 \/ IntOf(parts[at + 1]) > 19

\* the operator receiver has taken a packet (the last of recv_log')
Received == pkt_left' = pkt_left - 1

\* C6 (as claimed): a packet, legacy line or structured object, that carries an
\* out-of-range coordinate pair is rejected: no event is enqueued, the accumulator
\* is unchanged, and Pose is never out of range
C6_OutOfRangeRejected ==
    /\ [][ (Received /\ CarriesOutOfRange(recv_log'[Len(recv_log')]))
              => /\ rpi_action_queue' = rpi_action_queue
                 /\ obstacles_accum' = obstacles_accum ]_vars
    /\ [](/\ 0 <= current_location.x /\ current_location.x <= 19
          /\ 0 <= current_location.y /\ current_location.y <= 19)

\* an accepted OBSTACLE token: five fields, integer id and in-range coordinates
IsObstacleToken(pkt) ==
    /\ ~pkt.json
    /\ LET parts == Split(pkt.text, ",")
       IN  /\ Upper(parts[1]) = <<"O","B","S","T","A","C","L","E">>
           /\ Len(parts) >= 5
           /\ IsIntText(parts[2]) /\ IsIntText(parts[3]) /\ IsIntText(parts[4])
           /\ ~CarriesOutOfRange(pkt)

\* the record of an accepted OBSTACLE token {id, x, y, d}
TokenRecord(pkt) ==
    LET parts == Split(pkt.text, ",")
        u == Upper(parts[5])
    IN  [id |-> IntOf(parts[2]), x |-> IntOf(parts[3]), y |-> IntOf(parts[4]),
         d |-> IF u = <<"E">> THEN 2 ELSE IF u = <<"S">> THEN 4
               ELSE IF u = <<"W">> THEN 6 ELSE 0]

\* the records of the accepted OBSTACLE tokens of a packet sequence, in arrival order
RECURSIVE AcceptedRecords(_)
AcceptedRecords(log) ==
    IF log = <<>> THEN <<>>
    ELSE (IF IsObstacleToken(Head(log)) THEN <<TokenRecord(Head(log))>> ELSE <<>>)
         \o AcceptedRecords(Tail(log))

\* a flush token: an in-range ROBOT line, or BEGIN
IsFlushToken(pkt) ==
    /\ ~pkt.json
    /\ LET parts == Split(pkt.text, ",")
       IN  \/ /\ Upper(parts[1]) = <<"R","O","B","O","T">>
              /\ Len(parts) >= 4 /\ IsIntText(parts[2]) /\ IsIntText(parts[3])
              /\ ~CarriesOutOfRange(pkt)
           \/ Upper(parts[1]) = <<"B","E","G","I","N">>

\* the receiver takes a flush token after at least one accepted OBSTACLE token
FlushStep ==
    /\ Received
    /\ IsFlushToken(recv_log'[Len(recv_log')])
    /\ AcceptedRecords(recv_log) # <<>>

\* C7: on a flush token after accepted OBSTACLE tokens, exactly one event is
\* emitted, its obstacle list is the records accepted since the previous flush in
\* arrival order, and the accumulator is empty right after
C7_FlushInArrivalOrder ==
    [][ FlushStep =>
          /\ Len(rpi_action_queue') = Len(rpi_action_queue) + 1
          /\ SubSeq(rpi_action_queue', 1, Len(rpi_action_queue)) = rpi_action_queue
          /\ rpi_action_queue'[Len(rpi_action_queue')].cat = CatObstacle
          /\ rpi_action_queue'[Len(rpi_action_queue')].value.m.obstacles
                = AcceptedRecords(recv_log)
          /\ obstacles_accum' = <<>> ]_vars

\* two obstacles have been flushed in one event, the accumulator empty
C7_Witness ==
    /\ obstacles_accum = <<>>
    /\ Len(recv_log) = 1 /\ IsFlushToken(recv_log[1])
    /\ rpi_action_queue # <<>>
    /\ Len(rpi_action_queue[Len(rpi_action_queue)].value.m.obstacles) = 2

\* C8 (as claimed): at every release site, releasing MovementLock when it is not
\* held leaves the lock free and the releasing worker running
C8_UnheldReleaseIsNoOp ==
    [][ ~movement_lock =>
          /\ (ra_pc = "snap_release" /\ ra_pc' # ra_pc)
                => (ra_pc' = "snap_result" /\ ~movement_lock')
          /\ (stm_pc = "recv" /\ stm_pc' = "forward") => ~movement_lock'
          /\ (cf_pc = "snap_release" /\ cf_pc' # cf_pc)
                => (cf_pc' = "get" /\ ~movement_lock')
          /\ (cf_pc = "fin_release" /\ cf_pc' # cf_pc)
                => (cf_pc' = "fin_status" /\ ~movement_lock')
          /\ (cf_pc = "dispatch" /\ cf_pc' = "get") => ~movement_lock' ]_vars

\* the motor handler takes an ACK line while AwaitingAck is false
DuplicateAck ==
    /\ stm_pc = "recv" /\ stm_in # <<>> /\ Head(stm_in) # <<>>
    /\ StartsWith(StmMessage, T_ACK)
    /\ ~awaiting_ack
    /\ stm_in' = Tail(stm_in)

\* C9: an ACK taken while AwaitingAck is false changes neither AwaitingAck,
\* MovementLock, PathQueue, OutboundQueue nor the gates, and the handler goes on
\* to the next line
C9_DuplicateAckNoOp ==
    [][ DuplicateAck =>
          /\ awaiting_ack' = awaiting_ack /\ movement_lock' = movement_lock
          /\ path_queue' = path_queue /\ android_queue' = android_queue
          /\ unpause' = unpause /\ finish_all' = finish_all
          /\ stm_pc' = "recv" /\ stm_log' = "duplicate_ack" ]_vars

\* a duplicate ACK has been ignored while a movement holds the lock
C9_Witness == stm_log = "duplicate_ack" /\ stm_pc = "recv" /\ movement_lock

\* the router's send of a motor-bound command fails
SendFailure == cf_pc = "dispatch" /\ Branch(command_str) = "motor" /\ cf_pc' = "get"

\* C10: when the send of a motor-bound command fails, the router releases
\* MovementLock, logs the error, leaves AwaitingAck as it was, sends nothing and
\* goes on to dequeue the next command
C10_SendFailureReleases ==
    [][ SendFailure =>
          /\ ~movement_lock'
          /\ awaiting_ack' = awaiting_ack
          /\ cf_last' = "send_failed"
          /\ stm_sent' = stm_sent /\ stm_in' = stm_in /\ in_flight' = in_flight ]_vars

\* a send has failed: the router is back at the queue, the lock free
C10_Witness == cf_last = "send_failed" /\ cf_pc = "get" /\ ~movement_lock

\* the router is in its finalize branch, past the release of the lock
Finalizing == cf_pc \in {"fin_status", "fin_stitch", "fin_wait"}

\* C11: on the finalize sentinel the router closes Unpause, leaves MovementLock
\* free, queues one "finished" status and one stitch action, sends nothing to the
\* motor link while it finalizes, leaves the branch only when FinishAll is open,
\* and clears FinishAll as it does
C11_FinalizeSequence ==
    /\ [](Finalizing => ~movement_lock)
    /\ [][ (cf_pc = "dispatch" /\ Branch(command_str) = "fin" /\ cf_pc' # cf_pc)
              => (~unpause' /\ cf_pc' = "fin_release") ]_vars
    /\ [][ (cf_pc = "fin_release" /\ cf_pc' # cf_pc)
              => (~movement_lock' /\ cf_pc' = "fin_status") ]_vars
    /\ [][ (cf_pc = "fin_status" /\ cf_pc' # cf_pc)
              => /\ android_queue' = Append(android_queue,
                                            AndroidMessage(CatStatus, MsgText("finished")))
                 /\ rpi_action_queue' = rpi_action_queue
                 /\ cf_pc' = "fin_stitch" ]_vars
    /\ [][ (cf_pc = "fin_stitch" /\ cf_pc' # cf_pc)
              => /\ rpi_action_queue' = Append(rpi_action_queue,
                                               PiAction(CatStitch, ValStr(<<>>)))
                 /\ cf_pc' = "fin_wait" ]_vars
    /\ [][ (cf_pc = "fin_wait" /\ cf_pc' # cf_pc)
              => (finish_all /\ ~finish_all' /\ cf_pc' = "get") ]_vars
    /\ [][ (cf_pc \in {"fin_release", "fin_status", "fin_stitch", "fin_wait"})
              => (stm_sent' = stm_sent /\ in_flight' <= in_flight) ]_vars

\* the router has left the finalize branch after FinishAll opened, and cleared it
C11_Witness ==
    cf_last = "fin" /\ cf_pc = "get" /\ ~finish_all /\ ~unpause /\ ~movement_lock

\* C14 (as claimed): every failure of a plan, stitch or recognition call puts an
\* error-category message on OutboundQueue and the action processor keeps
\* running: it never ends, a snapshot value that does not split into id and
\* signal is reported, and so is a stitch or plan call that fails
C14_FailuresReported ==
    /\ [](ra_pc # "dead")
    /\ [][ (ra_pc = CatSnap /\ ~SnapValueOk(ra_action.value.s) /\ ra_pc' # ra_pc)
              => /\ Len(android_queue') = Len(android_queue) + 1
                 /\ android_queue'[Len(android_queue')].cat = CatError
                 /\ ra_pc' = "get" ]_vars
    /\ [][ (ra_pc = CatStitch /\ ra_pc' \notin {CatStitch, "stitch_set"})
              => /\ Len(android_queue') = Len(android_queue) + 1
                 /\ android_queue'[Len(android_queue')].cat = CatError
                 /\ ra_pc' = "get" ]_vars
    /\ [][ (ra_pc = "algo_post" /\ ra_pc' = "get" /\ android_queue' # android_queue)
              => android_queue'[Len(android_queue')].cat = CatError ]_vars

\* the packet the receiver takes in this step
TakenPacket == recv_log'[Len(recv_log')]

\* a legacy line whose first field is the given word, in any case
HasHead(pkt, word) == ~pkt.json /\ Upper(Split(pkt.text, ",")[1]) = word

\* the step appends exactly one obstacle-payload event to the action queue
EmitsOneEvent ==
    /\ Len(rpi_action_queue') = Len(rpi_action_queue) + 1
    /\ SubSeq(rpi_action_queue', 1, Len(rpi_action_queue)) = rpi_action_queue
    /\ rpi_action_queue'[Len(rpi_action_queue')].cat = CatObstacle

\* C20 (as claimed): an OBSTACLE token emits no event, and every flush token, an
\* in-range ROBOT line or a BEGIN line, whatever the accumulator holds, emits
\* exactly one event and leaves the accumulator empty
C20_EveryFlushEmits ==
    /\ [][ (Received /\ HasHead(TakenPacket, <<"O","B","S","T","A","C","L","E">>))
              => rpi_action_queue' = rpi_action_queue ]_vars
    /\ [][ (Received /\ IsFlushToken(TakenPacket))
              => (EmitsOneEvent /\ obstacles_accum' = <<>>) ]_vars

\* C20 (amended): an OBSTACLE token emits no event; an in-range ROBOT line, and
\* a BEGIN line taken while the accumulator is not empty, emit exactly one event
\* holding the accumulator's contents and leave the accumulator empty, the BEGIN
\* event carrying the current Pose; a BEGIN line taken while the accumulator is
\* empty emits no event and the accumulator stays empty
C20_FlushEmitsUnlessEmptyBegin ==
    /\ [][ (Received /\ HasHead(TakenPacket, <<"O","B","S","T","A","C","L","E">>))
              => rpi_action_queue' = rpi_action_queue ]_vars
    /\ [][ (Received /\ IsFlushToken(TakenPacket)
              /\ (HasHead(TakenPacket, <<"R","O","B","O","T">>) \/ obstacles_accum # <<>>))
              => /\ EmitsOneEvent
                 /\ rpi_action_queue'[Len(rpi_action_queue')].value.m.obstacles
                       = obstacles_accum
                 /\ obstacles_accum' = <<>> ]_vars
    /\ [][ (Received /\ HasHead(TakenPacket, <<"B","E","G","I","N">>)
              /\ obstacles_accum # <<>>)
              => LET m == rpi_action_queue'[Len(rpi_action_queue')].value.m
                 IN  /\ m.robot_x = current_location.x
                     /\ m.robot_y = current_location.y
                     /\ m.robot_dir = current_location.d ]_vars
    /\ [][ (Received /\ HasHead(TakenPacket, <<"B","E","G","I","N">>)
              /\ obstacles_accum = <<>>)
              => (rpi_action_queue' = rpi_action_queue /\ obstacles_accum' = <<>>) ]_vars

\* a BEGIN line has flushed an obstacle with a Pose that is not the origin
C20_Witness ==
    /\ recv_log = <<Line(T_BEGIN)>>
    /\ obstacles_accum = <<>>
    /\ rpi_action_queue # <<>>
    /\ rpi_action_queue[Len(rpi_action_queue)].value.m.robot_x = 1
    /\ rpi_action_queue[Len(rpi_action_queue)].value.m.obstacles # <<>>

\* a malformed packet: a ROBOT or OBSTACLE line with a missing or non-integer
\* field, or a decoded structured object that is no envelope with a cat field
IsMalformed(pkt) ==
    IF pkt.json
    THEN ~(pkt.obj.dict /\ pkt.obj.has_cat)
    ELSE LET parts == Split(pkt.text, ",")
         IN  \/ /\ HasHead(pkt, <<"R","O","B","O","T">>)
                /\ (Len(parts) < 4 \/ ~IsIntText(parts[2]) \/ ~IsIntText(parts[3]))
             \/ /\ HasHead(pkt, <<"O","B","S","T","A","C","L","E">>)
                /\ (Len(parts) < 5 \/ ~IsIntText(parts[2]) \/ ~IsIntText(parts[3])
                    \/ ~IsIntText(parts[4]))
             \/ (Len(parts) = 1 /\ IsIntText(pkt.text))

\* C13 (as claimed): on a malformed packet the operator receiver drops the
\* packet, changes neither the accumulator, the queues, the gates nor Pose, and
\* keeps running
C13_MalformedDropped ==
    [][ (Received /\ IsMalformed(TakenPacket))
           => /\ recv_pc' = "run"
              /\ obstacles_accum' = obstacles_accum
              /\ command_queue' = command_queue /\ path_queue' = path_queue
              /\ rpi_action_queue' = rpi_action_queue /\ android_queue' = android_queue
              /\ unpause' = unpause /\ finish_all' = finish_all
              /\ current_location' = current_location ]_vars

\* a command the parser queues for a joystick shorthand or a direct motor token
IsOperatorCommand(command) ==
    /\ command.t = "str"
    /\ \/ \E tok \in JoystickTokens : command.s = JoystickMapping(tok)
       \/ \E pre \in DirectPrefixes : StartsWith(Lower(command.s), pre)

\* C16 (as claimed): a command queued for a joystick or direct motor token is
\* motor-bound for the router: from its dispatch point the router sends it to
\* the motor link and goes on to set AwaitingAck
C16_OperatorCommandsMotorBound ==
    [][ (cf_pc = "dispatch" /\ IsOperatorCommand(cf_command) /\ cf_pc' # cf_pc)
           => /\ cf_pc' = "set_ack"
              /\ in_flight' = in_flight + 1
              /\ stm_sent' = command_bytes ]_vars

\* C18 (as claimed): once a plan response with commands has replaced the pending
\* work, a command sent to the motor link is a command of that response, taken
\* in response order, never one queued before the response
C18_OnlyPlanCommandsSent ==
    [][ (Refilling /\ in_flight' = in_flight + 1)
           => (taken >= 1 /\ ra_resp.commands[taken] = cf_command) ]_vars

\* C19: a plan request that returns without a plan to run leaves Unpause and
\* FinishAll as they were, and is either a non-success response, which queues
\* one error message and leaves CommandQueue and PathQueue as they were, or a
\* success with an empty command list, which queues no message
C19_FailedPlanFrame ==
    [][ (ra_pc = "algo_post" /\ ra_pc' = "get")
           => /\ unpause' = unpause /\ finish_all' = finish_all
              /\ \/ /\ android_queue' =
                          Append(android_queue, AndroidMessage(CatError, MsgText("algo")))
                    /\ command_queue' = command_queue /\ path_queue' = path_queue
                 \/ /\ android_queue' = android_queue
                    /\ command_queue' = <<>> /\ path_queue' = <<>> ]_vars

\* a plan request has failed while a command was waiting: the error is queued
\* and the command is still in CommandQueue
C19_Witness ==
    /\ ra_pc = "get" /\ command_queue # <<>>
    /\ android_queue # <<>> /\ Head(android_queue).cat = CatError

\* a step of the reconnect supervisor
SupervisorStep == sup_pc' # sup_pc

\* C12: no step of the reconnect supervisor changes MovementLock, AwaitingAck,
\* CommandQueue, PathQueue, Unpause or FinishAll, nor the position or state of
\* the command router, the motor handshake handler or the action processor; the
\* workers it stops and starts again are the operator receiver and the outbound
\* sender
C12_SupervisorFrame ==
    /\ [][ SupervisorStep
             => /\ UNCHANGED <<movement_lock, awaiting_ack, command_queue, path_queue,
                               unpause, finish_all>>
                /\ UNCHANGED <<cfv, stmv, rav, current_location>> ]_vars
    /\ [][ (sup_pc = "wait" /\ sup_pc' = "connect")
             => (recv_pc' = "killed" /\ ac_pc' = "killed") ]_vars
    /\ [][ (sup_pc = "restart" /\ sup_pc' = "announce")
             => (recv_pc' = "run" /\ ac_pc' = "get") ]_vars

\* C12 witness: the supervisor is in the middle of a recovery, both operator
\* workers stopped, while a motor command is in flight and not yet acknowledged
C12_Witness ==
    /\ sup_pc = "restart" /\ recv_pc = "killed" /\ ac_pc = "killed"
    /\ movement_lock /\ awaiting_ack /\ in_flight = 1

\* C15 (as claimed): an outbound sender whose send has failed takes no further
\* message from OutboundQueue until the supervisor has restarted it
C15_SenderSuspended ==
    [][ (ac_pc = "get" /\ ac_pc' = "send") => ~ac_failed ]_vars

\* the sender has written the line of the mapping it held
SentMapping == ac_pc = "send" /\ ac_pc' = "get" /\ link_up /\ ac_msg.value.t = "dict"

\* the fields joined with semicolons
RECURSIVE Joined(_)
Joined(fields) ==
    IF Len(fields) = 1 THEN fields[1]
    ELSE fields[1] \o ";" \o Joined(Tail(fields))

\* C17 (as claimed): a mapping of category location is written as location;x;y;d
\* with d one of 0, 2, 4, 6 whatever d the mapping holds; a mapping of another
\* category is written as the category and its values, joined with semicolons
C17_LocationNormalized ==
    [][ SentMapping
          => LET loc == ac_msg.value.loc
             IN  IF ac_msg.cat = CatLocation
                 THEN \E code \in {"0", "2", "4", "6"} :
                        link_out' = Joined(<<"location", ToString(loc.x),
                                             ToString(loc.y), code>>) \o "\n"
                 ELSE link_out' = Joined(<<ac_msg.cat, ToString(loc.x),
                                           ToString(loc.y), StrOf(loc.d)>>) \o "\n"
      ]_vars

\* the code the specification gives a direction field: 0/2/4/6 for N/E/S/W in
\* any case or in full, and the numeric codes 0, 2, 4, 6 for themselves
NormalCode(field) ==
    LET u == Upper(field)
    IN  IF u \in {<<"N">>, <<"N","O","R","T","H">>, <<"0">>} THEN 0
        ELSE IF u \in {<<"E">>, <<"E","A","S","T">>, <<"2">>} THEN 2
        ELSE IF u \in {<<"S">>, <<"S","O","U","T","H">>, <<"4">>} THEN 4
        ELSE 6

\* C21 (as claimed): the direction recorded for a legacy ROBOT or OBSTACLE line
\* is 0/2/4/6 for a compass designator N/E/S/W, and the same code for a numeric
\* code 0, 2, 4 or 6
C21_DirectionNormalized ==
    /\ [][ (Received /\ HasHead(TakenPacket, <<"R","O","B","O","T">>))
             => rpi_action_queue'[Len(rpi_action_queue')].value.m.robot_dir
                   = NormalCode(Split(TakenPacket.text, ",")[4]) ]_vars
    /\ [][ (Received /\ HasHead(TakenPacket, <<"O","B","S","T","A","C","L","E">>))
             => obstacles_accum'[Len(obstacles_accum')].d
                   = NormalCode(Split(TakenPacket.text, ",")[5]) ]_vars

\* C22 (as claimed): the accumulator changes only by one record appended at its
\* end, or by being emptied when a flush token is taken; a recovery of the
\* operator link leaves it as it was
C22_AccumulatorSurvivesDrop ==
    [][ obstacles_accum' # obstacles_accum
          => \/ /\ Len(obstacles_accum') = Len(obstacles_accum) + 1
                /\ SubSeq(obstacles_accum', 1, Len(obstacles_accum)) = obstacles_accum
             \/ /\ Received /\ IsFlushToken(TakenPacket)
                /\ obstacles_accum' = <<>> ]_vars

\* the location messages of a queue of outbound messages
RECURSIVE Locations(_)
Locations(messages) ==
    IF messages = <<>> THEN <<>>
    ELSE IF Head(messages).cat = CatLocation
         THEN <<Head(messages)>> \o Locations(Tail(messages))
         ELSE Locations(Tail(messages))

\* the handshake handler finishes the handling of a FIN
FinHandled == stm_pc = "forward" /\ stm_pc' = "recv"

StitchPending ==
    \/ ra_pc \in {CatStitch, "stitch_set"}
    \/ \E k \in 1..Len(rpi_action_queue) : rpi_action_queue[k].cat = CatStitch

\* the router waits in the finalize branch, the gate is closed and no stitch is
\* pending: the stitch call it asked for has come back without success
StitchFailed == cf_pc = "fin_wait" /\ ~finish_all /\ ~StitchPending

\* C24: FinishAll is opened only by the action processor's finish_all.set(),
\* which it reaches only after a stitch call answered 200 (the "stitched" info
\* message goes first); a stitch call answered otherwise leaves FinishAll closed
\* and enqueues one error message; and from then on the router stays in the
\* finalize branch with the gate closed
C24_FinishOnlyOnStitchSuccess ==
    /\ [][ (~finish_all /\ finish_all') => (ra_pc = "stitch_set" /\ ra_pc' = "get") ]_vars
    /\ [][ (ra_pc = CatStitch /\ ra_pc' = "stitch_set")
             => android_queue' = Append(android_queue,
                                        AndroidMessage(CatInfo, MsgText("stitched"))) ]_vars
    /\ [][ (ra_pc = CatStitch /\ ra_pc' = "get")
             => /\ finish_all' = finish_all
                /\ android_queue' = Append(android_queue,
                                           AndroidMessage(CatError, MsgText("stitch"))) ]_vars
    /\ [][ StitchFailed => StitchFailed' ]_vars

\* C24 witness: the stitch call has failed, its error message is the last
\* outbound message and the router waits on the closed gate
C24_Witness ==
    /\ StitchFailed /\ ra_pc = "get"
    /\ android_queue # <<>>
    /\ android_queue[Len(android_queue)] = AndroidMessage(CatError, MsgText("stitch"))

\* C25 (as claimed): a transport failure the outbound sender has signalled is
\* followed by a recovery that stops and restarts the sender, also when the
\* sender signals it after its restart and before the supervisor clears the flag
C25_FailureRecovered == ac_failed ~> ~ac_failed

\* C26 (as claimed): when the handshake handler has processed every line the
\* motor controller sent, the ACK and the FIN of each dispatched command among
\* them, and the router is not in the middle of a dispatch, AwaitingAck is false
C26_AckClearsAwaiting ==
    (stm_in = <<>> /\ stm_pc = "recv" /\ cf_pc # "set_ack") => ~awaiting_ack

\* the operator's control message with value start
IsStart(pkt) ==
    /\ pkt.json /\ pkt.obj.dict /\ pkt.obj.has_cat
    /\ pkt.obj.cat = "control" /\ pkt.obj.value.s = T_START

\* a command is pending: in CommandQueue, or dequeued by the router that waits
\* on Unpause
CommandPending == command_queue # <<>> \/ cf_pc = "wait"

\* C27 (as claimed): a start message taken while a command is pending opens
\* Unpause and enqueues the info message; the error is reported, with Unpause
\* unchanged, only when no command is pending
C27_StartOpensWhenPending ==
    [][ (Received /\ IsStart(TakenPacket))
          => IF CommandPending
             THEN /\ unpause'
                  /\ android_queue' = Append(android_queue,
                        AndroidMessage(CatInfo, MsgText("starting robot")))
             ELSE /\ unpause' = unpause
                  /\ android_queue' = Append(android_queue,
                        AndroidMessage(CatError, MsgText("command queue empty"))) ]_vars

\* the router holds a command it has not finished handling
RouterBusy == cf_pc \in {"wait", "acquire", "dispatch", "set_ack", "snap_release"}

\* the router is done with the command: back at the queue, or in the finalize
\* branch
RouterDone == cf_pc \in {"get", "fin_release", "fin_status", "fin_stitch", "fin_wait"}

\* a command waits in CommandQueue for the router
RouterWaiting == cf_pc = "get" /\ command_queue # <<>>

\* C28: while Unpause stays open, every command that waits in CommandQueue or is
\* held by the router is eventually handled: the router comes back to an empty
\* CommandQueue or reaches the finalize branch, never waiting for MovementLock
\* for ever
C28_RouterProgress ==
    (unpause /\ (RouterWaiting \/ RouterBusy))
        ~> (~unpause \/ (RouterDone /\ ~RouterWaiting))

\* C28 witness: the router waits for MovementLock, held for a motor command in
\* flight, with the finalize sentinel in hand
C28_Witness ==
    /\ cf_pc = "acquire" /\ movement_lock /\ unpause /\ in_flight >= 1
    /\ IsFinalize(command_str)

====
